---- MODULE Spec2Model ----
(***************************************************************************)
(* Model of train_mnist.py: ternary quantization, per-layer shift          *)
(* calibration, integer inference and 2-bit weight packing of a 3-layer    *)
(* ternary MLP.                                                            *)
(*                                                                         *)
(* Matrices are sequences of rows, rows and vectors are sequences of      *)
(* integers.  Float weights and pixels are exact rationals: a float weight *)
(* is an integer, a pixel x is the integer 2*127*x (units of 1/254).       *)
(***************************************************************************)
EXTENDS Integers, Sequences, FiniteSets, TLC

VARIABLES
    pc,          \* position of the running function
    fw,          \* model.fc1/fc2/fc3.weight (float weights)
    dataset,     \* test_dataset: the samples behind cal_loader and test_loader
    all_inputs,  \* calibrate_shift: all_inputs
    max_accs,    \* calibrate_shift: max_acc1..3 derived so far
    s,           \* calibrate_shift: s1..s3 derived so far
    shifts,      \* the shifts handed to verify_int8_inference / the exporters
    preds,       \* verify_int8_inference: pred of every sample visited
    total,       \* verify_int8_inference: total
    files,       \* artifact files written so far (name -> content)
    max_val,     \* find_shift_for_max: argument
    shift,       \* find_shift_for_max: local shift
    qW,          \* TernaryQuantize.forward: argument w
    qOut,        \* TernaryQuantize.forward: returned tensor
    pk           \* packing loop of export_weights_header: w, k, m, row, tile, word_list

vars == <<pc, fw, dataset, all_inputs, max_accs, s, shifts, preds, total, files,
          max_val, shift, qW, qOut, pk>>

----------------------------------------------------------------------------
(* Bounds *)

Dim == 2          \* width of every layer (784, 256, 128, 10 in the source)
MaxSamples == 2   \* samples in the dataset
MaxVal == 600     \* largest argument tried for find_shift_for_max
QRows == 2        \* rows of a matrix handed to the quantizer
QCols == 2        \* columns of a matrix handed to the quantizer
PackRows == 2     \* rows of a matrix handed to the packing loop
PackCols == 130   \* columns of a matrix handed to the packing loop
MaxShift == 2     \* largest shift handed to verify_int8_inference directly

----------------------------------------------------------------------------
(* Arithmetic helpers *)

Abs(x) == IF x < 0 THEN -x ELSE x

Max2(a, b) == IF a >= b THEN a ELSE b

Min2(a, b) == IF a <= b THEN a ELSE b

RECURSIVE SumTo(_, _)
SumTo(f, n) == IF n = 0 THEN 0 ELSE f[n] + SumTo(f, n - 1)

\* np.max over a non-empty vector
RECURSIVE MaxTo(_, _)
MaxTo(f, n) == IF n = 1 THEN f[1] ELSE Max2(f[n], MaxTo(f, n - 1))

NpMax(v) == MaxTo(v, Len(v))

\* numpy >> on a signed integer: arithmetic shift, floor(x / 2^n)
Shr(x, n) == x \div (2 ^ n)

\* ndarray.clip(lo, hi)
Clip(x, lo, hi) == IF x < lo THEN lo ELSE IF x > hi THEN hi ELSE x

\* .astype(np.int8) of an integer: two's-complement wrap to 8 bits
AsInt8(x) == ((x + 128) % 256) - 128

\* w.astype(np.int32) @ a.astype(np.int32): one accumulator per row of w
MatVec(w, a) ==
    [r \in 1..Len(w) |-> SumTo([c \in 1..Len(a) |-> w[r][c] * a[c]], Len(a))]

----------------------------------------------------------------------------
(* find_shift_for_max *)

INT8_MAX == 127

INT8_MIN == -128

\* mutant: the bound off by one, (max_val >> shift) > 128
ShiftLoopCondOffByOne(mv, sh) == Shr(mv, sh) > INT8_MAX + 1

\* the while condition (max_val >> shift) > 127
ShiftLoopCond(mv, sh) == Shr(mv, sh) > INT8_MAX

RECURSIVE ShiftLoop(_, _)
ShiftLoop(mv, sh) == IF ShiftLoopCond(mv, sh) THEN ShiftLoop(mv, sh + 1) ELSE sh

find_shift_for_max(mv) == IF mv = 0 THEN 0 ELSE ShiftLoop(mv, 0)

----------------------------------------------------------------------------
(* TernaryQuantize.forward.  A rational is <<numerator, denominator>> with  *)
(* a positive denominator.                                                 *)

Rows(W) == Len(W)

Cols(W) == Len(W[1])

\* sum of |w| over all elements; w.abs().mean() is AbsSum(W) / (Rows * Cols)
AbsSum(W) ==
    SumTo([r \in 1..Rows(W) |-> SumTo([c \in 1..Cols(W) |-> Abs(W[r][c])], Cols(W))],
          Rows(W))

\* w / alpha for alpha = S / n
DivAlpha(x, S, n) == <<x * n, S>>

\* mutant: the clamp left out
ClampNone(q) == q

\* .clamp(-1, 1)
Clamp1(q) ==
    IF q[1] < -q[2] THEN <<-1, 1>> ELSE IF q[1] > q[2] THEN <<1, 1>> ELSE q

\* .round(): nearest integer, ties to the even one
Round(q) ==
    LET fl == q[1] \div q[2]
        twice == 2 * (q[1] - fl * q[2])
    IN  IF twice < q[2] THEN fl
        ELSE IF twice > q[2] THEN fl + 1
        ELSE IF fl % 2 = 0 THEN fl ELSE fl + 1

\* w_scaled = (w / alpha).clamp(-1, 1)
Scale(x, S, n) == Clamp1(DivAlpha(x, S, n))

TernaryQuantizeForward(W) ==
    LET S == AbsSum(W)
        n == Rows(W) * Cols(W)
    IN  IF S = 0
        THEN [r \in 1..Rows(W) |-> [c \in 1..Cols(W) |-> 0]]
        ELSE [r \in 1..Rows(W) |-> [c \in 1..Cols(W) |-> Round(Scale(W[r][c], S, n))]]

\* ternary_quantize(weight).detach().cpu().numpy().astype(np.int8)
QuantInt8(W) ==
    LET q == TernaryQuantizeForward(W)
    IN  [r \in 1..Rows(W) |-> [c \in 1..Cols(W) |-> AsInt8(q[r][c])]]

\* w1, w2, w3 as calibrate_shift, verify_int8_inference and the exporter derive them
Ternary(m) == [w1 |-> QuantInt8(m.fc1), w2 |-> QuantInt8(m.fc2), w3 |-> QuantInt8(m.fc3)]

----------------------------------------------------------------------------
(* Input quantization: (x * 127).clip(-128, 127).astype(np.int8).          *)
(* A pixel p stands for x = p / 254, so x * 127 = p / 2.                   *)

\* astype(np.int8) of a float in range truncates toward zero
TruncHalf(p) == IF p >= 0 THEN p \div 2 ELSE -((-p) \div 2)

ToInt8Act(p) == AsInt8(TruncHalf(Clip(p, 2 * INT8_MIN, 2 * INT8_MAX)))

ToInt8Vec(x) == [c \in 1..Len(x) |-> ToInt8Act(x[c])]

----------------------------------------------------------------------------
(* calibrate_shift *)

BATCH_SIZE == 256

\* the batches a DataLoader(batch_size=256, shuffle=False) yields
RECURSIVE Batches(_)
Batches(ds) ==
    IF Len(ds) = 0 THEN <<>>
    ELSE <<SubSeq(ds, 1, Min2(Len(ds), BATCH_SIZE))>>
         \o Batches(SubSeq(ds, Min2(Len(ds), BATCH_SIZE) + 1, Len(ds)))

RECURSIVE Concat(_)
Concat(list) == IF list = <<>> THEN <<>> ELSE Head(list) \o Concat(Tail(list))

\* all_acts of collect_int8_inputs: one int8 array per batch
AllActs(loader) == [b \in 1..Len(loader) |-> [i \in 1..Len(loader[b]) |-> ToInt8Vec(loader[b][i])]]

\* mutant: an empty list concatenates to an empty array
ConcatenateAcceptsEmpty(list) == FALSE

\* np.concatenate raises ValueError on an empty list of arrays
ConcatenateRaises(list) == list = <<>>

\* mutant: the replay leaves the shift of the previous layer out
CalOutIgnoresShift(acc, sh) ==
    [r \in 1..Len(acc) |-> AsInt8(Max2(Clip(acc[r], INT8_MIN, INT8_MAX), 0))]

\* np.maximum((acc >> s).clip(-128, 127), 0).astype(np.int8)
CalOut(acc, sh) ==
    [r \in 1..Len(acc) |-> AsInt8(Max2(Clip(Shr(acc[r], sh), INT8_MIN, INT8_MAX), 0))]

\* mutant: np.abs left out
RunningMaxSigned(cur, acc) == Max2(cur, NpMax(acc))

\* mutant: the maximum of the sample replaces the running maximum
RunningMaxLast(cur, acc) == NpMax([r \in 1..Len(acc) |-> Abs(acc[r])])

\* max_acc = max(max_acc, np.max(np.abs(acc)))
RunningMax(cur, acc) == Max2(cur, NpMax([r \in 1..Len(acc) |-> Abs(acc[r])]))

Acc1(w, a) == MatVec(w.w1, a)

Acc2(w, a, s1) == MatVec(w.w2, CalOut(Acc1(w, a), s1))

Acc3(w, a, s1, s2) == MatVec(w.w3, CalOut(Acc2(w, a, s1), s2))

\* the three sweeps over all_inputs, samples visited in order 1..n
RECURSIVE Pass1Max(_, _, _)
Pass1Max(w, inputs, n) ==
    IF n = 0 THEN 0 ELSE RunningMax(Pass1Max(w, inputs, n - 1), Acc1(w, inputs[n]))

RECURSIVE Pass2Max(_, _, _, _)
Pass2Max(w, inputs, s1, n) ==
    IF n = 0 THEN 0
    ELSE RunningMax(Pass2Max(w, inputs, s1, n - 1), Acc2(w, inputs[n], s1))

RECURSIVE Pass3Max(_, _, _, _, _)
Pass3Max(w, inputs, s1, s2, n) ==
    IF n = 0 THEN 0
    ELSE RunningMax(Pass3Max(w, inputs, s1, s2, n - 1), Acc3(w, inputs[n], s1, s2))

Pass1Shift(w, inputs) == find_shift_for_max(Pass1Max(w, inputs, Len(inputs)))

Pass2Shift(w, inputs, s1) == find_shift_for_max(Pass2Max(w, inputs, s1, Len(inputs)))

Pass3Shift(w, inputs, s1, s2) ==
    find_shift_for_max(Pass3Max(w, inputs, s1, s2, Len(inputs)))

----------------------------------------------------------------------------
(* verify_int8_inference *)

\* (acc >> shift).clip(-128, 127).astype(np.int8)
ShiftClip(acc, sh) ==
    [r \in 1..Len(acc) |-> AsInt8(Clip(Shr(acc[r], sh), INT8_MIN, INT8_MAX))]

\* np.maximum(out, 0).astype(np.int8)
Relu(out) == [r \in 1..Len(out) |-> AsInt8(Max2(out[r], 0))]

\* np.argmax: index (from 0) of the first largest element
ArgMax(v) == (CHOOSE i \in 1..Len(v) :
                 /\ \A j \in 1..Len(v) : v[j] <= v[i]
                 /\ \A j \in 1..(i - 1) : v[j] < v[i]) - 1

VAcc1(w, a) == MatVec(w.w1, a)

VOut1(w, a, sh) == Relu(ShiftClip(VAcc1(w, a), sh[1]))

VAcc2(w, a, sh) == MatVec(w.w2, VOut1(w, a, sh))

VOut2(w, a, sh) == Relu(ShiftClip(VAcc2(w, a, sh), sh[2]))

VAcc3(w, a, sh) == MatVec(w.w3, VOut2(w, a, sh))

\* mutant: layer 3 neither shifted nor clamped
VOut3Raw(w, a, sh) == VAcc3(w, a, sh)

\* out3 = (acc3 >> shifts[2]).clip(-128, 127).astype(np.int8)
VOut3(w, a, sh) == ShiftClip(VAcc3(w, a, sh), sh[3])

\* pred = np.argmax(out3)
Pred(w, a, sh) == ArgMax(VOut3(w, a, sh))

----------------------------------------------------------------------------
(* The packing loop of export_weights_header.  A word is the set of its    *)
(* bit positions that are 1 (bit 0 the least significant).                 *)

TILE_COLS == 128

WORDS_PER_TILE == 8

FIELDS_PER_WORD == 16

\* the bits of a 2-bit code
BitsOf(enc) ==
    {b \in 0..1 : (enc \div (2 ^ b)) % 2 = 1}

\* enc = 0x1 for +1, 0x2 for -1, 0x0 otherwise
Enc(val) == IF val = 1 THEN 1 ELSE IF val = -1 THEN 2 ELSE 0

\* enc << n
Shl(enc, n) == {b + n : b \in BitsOf(enc)}

\* x | y
BitOr(x, y) == x \cup y

\* mutant: one bit per field, i % 16
BitOffsetOneBit(i) == i % FIELDS_PER_WORD

\* the shift amount (i % 16) * 2
BitOffset(i) == (i % FIELDS_PER_WORD) * 2

\* the word i // 16 of the tile, counted from 1
WordIndex(i) == (i \div FIELDS_PER_WORD) + 1

\* tiles_per_row = (k + 127) // 128
TilesPerRow(k) == (k + TILE_COLS - 1) \div TILE_COLS

\* val = int(w[row, col]) if col < k else 0, for col = tile * 128 + i
TileVal(w, k, row, tile, i) ==
    LET col == tile * TILE_COLS + i
    IN  IF col < k THEN w[row + 1][col + 1] ELSE 0

\* packed after the loop over i in range(128): every word starts 0 and is
\* OR-ed with enc << ((i % 16) * 2) for every i with i // 16 = its index
PackTile(w, k, row, tile) ==
    [j \in 1..WORDS_PER_TILE |->
        UNION {BitOr({}, Shl(Enc(TileVal(w, k, row, tile, i)), BitOffset(i))) :
                  i \in {x \in 0..(TILE_COLS - 1) : WordIndex(x) = j}}]

\* word_list after all tiles of the rows 0 .. n-1
RECURSIVE PackTiles(_, _, _, _)
PackTiles(w, k, row, n) ==
    IF n = 0 THEN <<>>
    ELSE PackTiles(w, k, row, n - 1) \o PackTile(w, k, row, n - 1)

RECURSIVE PackRowsTo(_, _, _)
PackRowsTo(w, k, n) ==
    IF n = 0 THEN <<>>
    ELSE PackRowsTo(w, k, n - 1) \o PackTiles(w, k, n - 1, TilesPerRow(k))

\* word_list of one layer
PackMatrix(w, k, m) == PackRowsTo(w, k, m)

----------------------------------------------------------------------------
(* The inputs the specifications draw from *)

L1_K == Dim

L1_M == Dim

L2_M == Dim

L3_M == Dim

\* float weight matrices: a pattern fixes every element
WeightPatterns == {"zero", "alt", "tri", "neg"}

FloatWeight(pat, r, c) ==
    CASE pat = "zero" -> 0
      [] pat = "alt"  -> IF (r + c) % 2 = 0 THEN 4 ELSE -4
      [] pat = "tri"  -> IF c <= r THEN 4 ELSE 1
      [] pat = "neg"  -> IF r = 1 THEN -1 ELSE -4

FloatMatrix(pat, m, k) == [r \in 1..m |-> [c \in 1..k |-> FloatWeight(pat, r, c)]]

Models ==
    {[fc1 |-> FloatMatrix(p1, L1_M, L1_K),
      fc2 |-> FloatMatrix(p2, L2_M, L1_M),
      fc3 |-> FloatMatrix(p3, L3_M, L2_M)] : p1 \in WeightPatterns, p2 \in WeightPatterns, p3 \in WeightPatterns}

\* the weights before training
Untrained ==
    [fc1 |-> FloatMatrix("alt", L1_M, L1_K),
     fc2 |-> FloatMatrix("alt", L2_M, L1_M),
     fc3 |-> FloatMatrix("alt", L3_M, L2_M)]

\* images, pixels in units of 1/254: a pattern fixes every pixel
ImagePatterns == {"hi", "alt", "one", "dim"}

Pixel(pat, c) ==
    CASE pat = "hi"   -> 254
      [] pat = "alt"  -> IF c % 2 = 1 THEN 254 ELSE -260
      [] pat = "one"  -> IF c = 1 THEN 254 ELSE 0
      [] pat = "dim"  -> IF c = 2 THEN 5 ELSE 0

Samples == {[c \in 1..L1_K |-> Pixel(pat, c)] : pat \in ImagePatterns}

SeqsUpTo(S, n) == UNION {[1..l -> S] : l \in 0..n}

Datasets == SeqsUpTo(Samples, MaxSamples)

NoFiles == [n \in {} |-> 0]

----------------------------------------------------------------------------
(* main: train, calibrate, verify, export *)

WEIGHTS_FILE == "mnist_weights.h"

TEST_DATA_FILE == "mnist_test_data.h"

NUM_IMAGES == 100

\* the samples a loader over the dataset delivers, as int8 vectors in order
LoaderActs(ds) == Concat(AllActs(Batches(ds)))

\* the 20 training epochs leave some float weights in the model
Train ==
    /\ pc = "train"
    /\ fw' \in Models
    /\ pc' = "calibrate"
    /\ UNCHANGED <<dataset, all_inputs, max_accs, s, shifts, preds, total, files,
                   max_val, shift, qW, qOut, pk>>

\* all_inputs = collect_int8_inputs(cal_loader)
CollectInt8Inputs ==
    /\ pc = "calibrate"
    /\ LET all_acts == AllActs(Batches(dataset))
       IN  IF ConcatenateRaises(all_acts)
           THEN /\ pc' = "aborted"
                /\ UNCHANGED all_inputs
           ELSE /\ all_inputs' = Concat(all_acts)
                /\ pc' = "pass1"
    /\ UNCHANGED <<fw, dataset, max_accs, s, shifts, preds, total, files,
                   max_val, shift, qW, qOut, pk>>

\* Pass 1: determine shift for layer 1
Pass1 ==
    /\ pc = "pass1"
    /\ LET m == Pass1Max(Ternary(fw), all_inputs, Len(all_inputs))
       IN  /\ max_accs' = <<m>>
           /\ s' = <<find_shift_for_max(m)>>
    /\ pc' = "pass2"
    /\ UNCHANGED <<fw, dataset, all_inputs, shifts, preds, total, files,
                   max_val, shift, qW, qOut, pk>>

\* Pass 2: with fixed s1, determine shift for layer 2
Pass2 ==
    /\ pc = "pass2"
    /\ LET m == Pass2Max(Ternary(fw), all_inputs, s[1], Len(all_inputs))
       IN  /\ max_accs' = Append(max_accs, m)
           /\ s' = Append(s, find_shift_for_max(m))
    /\ pc' = "pass3"
    /\ UNCHANGED <<fw, dataset, all_inputs, shifts, preds, total, files,
                   max_val, shift, qW, qOut, pk>>

\* Pass 3: with fixed s1, s2, determine shift for layer 3
Pass3 ==
    /\ pc = "pass3"
    /\ LET m == Pass3Max(Ternary(fw), all_inputs, s[1], s[2], Len(all_inputs))
       IN  /\ max_accs' = Append(max_accs, m)
           /\ s' = Append(s, find_shift_for_max(m))
    /\ pc' = "cal_return"
    /\ UNCHANGED <<fw, dataset, all_inputs, shifts, preds, total, files,
                   max_val, shift, qW, qOut, pk>>

\* return shifts; main: shifts = calibrate_shift(model, device, cal_loader)
CalibrateReturn ==
    /\ pc = "cal_return"
    /\ shifts' = s
    /\ pc' = "verify"
    /\ UNCHANGED <<fw, dataset, all_inputs, max_accs, s, preds, total, files,
                   max_val, shift, qW, qOut, pk>>

\* verify_int8_inference(model, device, test_loader, shifts); the division of
\* line 399 raises ZeroDivisionError when no sample was visited
VerifyInt8Inference ==
    /\ pc = "verify"
    /\ LET acts == LoaderActs(dataset)
       IN  /\ preds' = [b \in 1..Len(acts) |-> Pred(Ternary(fw), acts[b], shifts)]
           /\ total' = Len(acts)
           /\ pc' = IF Len(acts) = 0 THEN "aborted" ELSE "export_weights"
    /\ UNCHANGED <<fw, dataset, all_inputs, max_accs, s, shifts, files,
                   max_val, shift, qW, qOut, pk>>

\* the content of mnist_weights.h: shifts, plain weights, packed words per layer
WeightsHeader(w, sh) ==
    [shifts  |-> sh,
     weights |-> <<w.w1, w.w2, w.w3>>,
     packed  |-> <<PackMatrix(w.w1, L1_K, L1_M),
                   PackMatrix(w.w2, L1_M, L2_M),
                   PackMatrix(w.w3, L2_M, L3_M)>>]

\* mutant: the weights header is written before verification
ExportWeightsBeforeVerify ==
    /\ pc = "verify"
    /\ files' = (WEIGHTS_FILE :> WeightsHeader(Ternary(fw), shifts)) @@ files
    /\ UNCHANGED <<pc, fw, dataset, all_inputs, max_accs, s, shifts, preds, total,
                   max_val, shift, qW, qOut, pk>>

ExportWeightsHeader ==
    /\ pc = "export_weights"
    /\ files' = (WEIGHTS_FILE :> WeightsHeader(Ternary(fw), shifts)) @@ files
    /\ pc' = "export_test_data"
    /\ UNCHANGED <<fw, dataset, all_inputs, max_accs, s, shifts, preds, total,
                   max_val, shift, qW, qOut, pk>>

\* the content of mnist_test_data.h: the first num_images images
ExportTestDataHeader ==
    /\ pc = "export_test_data"
    /\ LET acts == LoaderActs(dataset)
       IN  files' = (TEST_DATA_FILE :> SubSeq(acts, 1, Min2(Len(acts), NUM_IMAGES))) @@ files
    /\ pc' = "done"
    /\ UNCHANGED <<fw, dataset, all_inputs, max_accs, s, shifts, preds, total,
                   max_val, shift, qW, qOut, pk>>

Init ==
    /\ pc = "train"
    /\ fw = Untrained
    /\ dataset \in Datasets
    /\ all_inputs = <<>>
    /\ max_accs = <<>>
    /\ s = <<>>
    /\ shifts = <<>>
    /\ preds = <<>>
    /\ total = 0
    /\ files = NoFiles
    /\ max_val = 0
    /\ shift = 0
    /\ qW = <<>>
    /\ qOut = <<>>
    /\ pk = <<>>

Next ==
    \/ Train
    \/ CollectInt8Inputs
    \/ Pass1
    \/ Pass2
    \/ Pass3
    \/ CalibrateReturn
    \/ VerifyInt8Inference
    \/ ExportWeightsHeader
    \/ ExportTestDataHeader

Spec == Init /\ [][Next]_vars

----------------------------------------------------------------------------
(* Claims about calibrate_shift and main *)

\* calibrate_shift has returned its three shifts to main
Calibrated == Len(shifts) = 3 /\ pc \in {"verify", "export_weights", "export_test_data", "done"}

\* the shifts calibrate_shift derives for weights w and samples inputs
CalibrateShifts(w, inputs) ==
    LET s1 == Pass1Shift(w, inputs)
        s2 == Pass2Shift(w, inputs, s1)
        s3 == Pass3Shift(w, inputs, s1, s2)
    IN  <<s1, s2, s3>>

InInt8(x) == INT8_MIN <= x /\ x <= INT8_MAX

\* C2: after calibrate_shift returns [s1, s2, s3], on every calibration sample
\* every accumulator of every layer, replayed with the returned shifts,
\* satisfies -128 <= (acc >> s_i) <= 127 under the floor right shift.
C2_ShiftedAccFitsInt8 ==
    Calibrated =>
        LET w == Ternary(fw)
        IN  \A i \in 1..Len(all_inputs) :
                LET a == all_inputs[i]
                    acc1 == Acc1(w, a)
                    acc2 == Acc2(w, a, shifts[1])
                    acc3 == Acc3(w, a, shifts[1], shifts[2])
                IN  /\ \A r \in 1..Len(acc1) : InInt8(acc1[r] \div (2 ^ shifts[1]))
                    /\ \A r \in 1..Len(acc2) : InInt8(acc2[r] \div (2 ^ shifts[2]))
                    /\ \A r \in 1..Len(acc3) : InInt8(acc3[r] \div (2 ^ shifts[3]))

\* a negative accumulator that a positive shift brings to exactly -128
C2_Witness ==
    /\ Calibrated
    /\ shifts[1] > 0
    /\ \E i \in 1..Len(all_inputs) :
          LET acc1 == Acc1(Ternary(fw), all_inputs[i])
          IN  \E r \in 1..Len(acc1) : acc1[r] < 0 /\ acc1[r] \div (2 ^ shifts[1]) = INT8_MIN

Permuted(inputs, p) == [i \in 1..Len(inputs) |-> inputs[p[i]]]

\* C5: for fixed weights the returned shifts are the shifts calibrate_shift
\* derives for every permutation of the same calibration samples.
C5_OrderIndependent ==
    Calibrated =>
        \A p \in Permutations(1..Len(all_inputs)) :
            CalibrateShifts(Ternary(fw), Permuted(all_inputs, p)) = shifts

\* two samples that alone would give different shifts, visited small one last
C5_Witness ==
    /\ Calibrated
    /\ Len(all_inputs) >= 2
    /\ CalibrateShifts(Ternary(fw), <<all_inputs[Len(all_inputs)]>>) # shifts
    /\ CalibrateShifts(Ternary(fw), <<all_inputs[1]>>) = shifts

WrongShifts == 0..4

\* C6 as stated: recomputing the pass of layer 2 (3) with any shift for layer
\* 1 (2) other than the calibrated one changes the shift of layer 2 (3).
C6_WrongShiftAlwaysChanges ==
    Calibrated =>
        LET w == Ternary(fw)
        IN  \A x \in WrongShifts :
                /\ x # shifts[1] => Pass2Shift(w, all_inputs, x) # shifts[2]
                /\ x # shifts[2] => Pass3Shift(w, all_inputs, shifts[1], x) # shifts[3]

\* no row of w mixes +1 and -1
SameSignRows(w) ==
    \A r \in 1..Len(w) : ~(\E c \in 1..Len(w[r]) : w[r][c] = 1 /\ \E d \in 1..Len(w[r]) : w[r][d] = -1)

\* C6 amended: the pass of layer i replays layer i-1 with the shift it is
\* given; when no row of layer i mixes signs and the calibrated shift of
\* layer i is positive, recomputing with a larger shift for layer i-1
\* gives a strictly smaller shift for layer i.
C6_LargerShiftLowersNext ==
    Calibrated =>
        LET w == Ternary(fw)
        IN  \A d \in 1..2 :
                /\ (SameSignRows(w.w2) /\ shifts[2] > 0)
                      => Pass2Shift(w, all_inputs, shifts[1] + d) < shifts[2]
                /\ (SameSignRows(w.w3) /\ shifts[3] > 0)
                      => Pass3Shift(w, all_inputs, shifts[1], shifts[2] + d) < shifts[3]

C6_Witness ==
    /\ Calibrated
    /\ SameSignRows(Ternary(fw).w2) /\ shifts[2] > 0
    /\ SameSignRows(Ternary(fw).w3) /\ shifts[3] > 0
    /\ Pass2Shift(Ternary(fw), all_inputs, shifts[1] + 1) < shifts[2]
    /\ Pass3Shift(Ternary(fw), all_inputs, shifts[1], shifts[2] + 1) < shifts[3]

\* C7: with a loader of zero samples calibrate_shift aborts before any
\* maximum or shift is derived, and returns no shifts.
C7_EmptySetAborts ==
    Len(dataset) = 0 =>
        /\ pc \in {"train", "calibrate", "aborted"}
        /\ max_accs = <<>> /\ s = <<>> /\ shifts = <<>>

C7_Witness == Len(dataset) = 0 /\ pc = "aborted" /\ s = <<>> /\ shifts = <<>>

\* C8: an artifact file exists only after calibrate_shift returned three
\* shifts and verify_int8_inference completed; an aborted run has no file.
C8_NoArtifactBeforeVerified ==
    /\ DOMAIN files # {} =>
          /\ Len(shifts) = 3
          /\ total = Len(dataset) /\ Len(preds) = total /\ total > 0
          /\ pc \in {"export_test_data", "done"}
          /\ WEIGHTS_FILE \in DOMAIN files /\ files[WEIGHTS_FILE].shifts = shifts
    /\ pc = "aborted" => DOMAIN files = {}
    /\ pc \in {"train", "calibrate", "pass1", "pass2", "pass3", "cal_return", "verify"}
          => DOMAIN files = {}

C8_Witness == pc = "done" /\ DOMAIN files = {WEIGHTS_FILE, TEST_DATA_FILE}

\* verify_int8_inference has returned
Verified == pc \in {"export_weights", "export_test_data", "done"}

\* C10 as stated: the prediction is the arg-max of the raw layer-3 accumulators
C10_PredIsArgMaxOfRawAcc ==
    Verified =>
        \A b \in 1..Len(preds) :
            preds[b] = ArgMax(VAcc3(Ternary(fw), LoaderActs(dataset)[b], shifts))

\* one layer of the integer forward pass, written out: floor shift, clamp, and
\* rectification where asked for
C10_Layer(w, a, sh, rectify) ==
    [r \in 1..Len(w) |->
        LET acc == SumTo([c \in 1..Len(a) |-> w[r][c] * a[c]], Len(a))
            q == acc \div (2 ^ sh)
            cl == IF q < INT8_MIN THEN INT8_MIN ELSE IF q > INT8_MAX THEN INT8_MAX ELSE q
        IN  IF rectify /\ cl < 0 THEN 0 ELSE cl]

C10_First(v) == CHOOSE i \in 1..Len(v) : \A j \in 1..Len(v) : v[j] < v[i] \/ (v[j] = v[i] /\ i <= j)

\* C10 amended: layers 1 and 2 shift, clamp and rectify; layer 3 is shifted by
\* shifts[2] and clamped too, only not rectified; the prediction is the first
\* arg-max of that shifted, clamped layer-3 vector.
C10_PredIsArgMaxOfShiftedAcc ==
    Verified =>
        \A b \in 1..Len(preds) :
            LET w == Ternary(fw)
                a == LoaderActs(dataset)[b]
                o1 == C10_Layer(w.w1, a, shifts[1], TRUE)
                o2 == C10_Layer(w.w2, o1, shifts[2], TRUE)
                o3 == C10_Layer(w.w3, o2, shifts[3], FALSE)
            IN  preds[b] = C10_First(o3) - 1

\* a sample whose prediction differs from the arg-max of its raw accumulators
C10_Witness ==
    /\ Verified
    /\ shifts[3] > 0
    /\ \E b \in 1..Len(preds) :
          preds[b] # ArgMax(VAcc3(Ternary(fw), LoaderActs(dataset)[b], shifts))

----------------------------------------------------------------------------
(* find_shift_for_max, one step per test of a condition.  shift also holds  *)
(* the value returned.                                                     *)

\* if max_val == 0: return 0; else shift = 0
ShiftEnter ==
    /\ pc = "fs_enter"
    /\ shift' = 0
    /\ pc' = IF max_val = 0 THEN "fs_return" ELSE "fs_loop"
    /\ UNCHANGED <<fw, dataset, all_inputs, max_accs, s, shifts, preds, total, files,
                   max_val, qW, qOut, pk>>

\* while (max_val >> shift) > 127: shift += 1
ShiftIterate ==
    /\ pc = "fs_loop"
    /\ ShiftLoopCond(max_val, shift)
    /\ shift' = shift + 1
    /\ UNCHANGED <<pc, fw, dataset, all_inputs, max_accs, s, shifts, preds, total, files,
                   max_val, qW, qOut, pk>>

\* return shift
ShiftReturn ==
    /\ pc = "fs_loop"
    /\ ~ShiftLoopCond(max_val, shift)
    /\ pc' = "fs_return"
    /\ UNCHANGED <<fw, dataset, all_inputs, max_accs, s, shifts, preds, total, files,
                   max_val, shift, qW, qOut, pk>>

InitShift ==
    /\ pc = "fs_enter"
    /\ max_val \in 0..MaxVal
    /\ shift = 0
    /\ fw = Untrained
    /\ dataset = <<>>
    /\ all_inputs = <<>>
    /\ max_accs = <<>>
    /\ s = <<>>
    /\ shifts = <<>>
    /\ preds = <<>>
    /\ total = 0
    /\ files = NoFiles
    /\ qW = <<>>
    /\ qOut = <<>>
    /\ pk = <<>>

NextShift == ShiftEnter \/ ShiftIterate \/ ShiftReturn

\* a running call keeps running: nothing else competes for the thread
SpecShift == InitShift /\ [][NextShift]_vars /\ WF_vars(NextShift)

\* C1: find_shift_for_max(max_val) terminates, and the value s it returns is
\* the least s >= 0 with (max_val >> s) <= 127: (max_val >> s) <= 127, and
\* (max_val >> (s-1)) > 127 when s > 0; it is 0 for 0 and 2 for 500.
C1_MinimalShift ==
    /\ <>(pc = "fs_return")
    /\ [](pc = "fs_return" =>
            /\ shift >= 0
            /\ max_val \div (2 ^ shift) <= 127
            /\ shift > 0 => max_val \div (2 ^ (shift - 1)) > 127
            /\ \A x \in 0..shift : max_val \div (2 ^ x) <= 127 => x = shift
            /\ shift = find_shift_for_max(max_val)
            /\ max_val = 0 => shift = 0
            /\ max_val = 500 => shift = 2)

C1_Witness == pc = "fs_return" /\ max_val = 500 /\ shift = 2

----------------------------------------------------------------------------
(* TernaryQuantize.forward as a function of its argument *)

QuantForward ==
    /\ pc = "q_call"
    /\ qOut' = TernaryQuantizeForward(qW)
    /\ pc' = "q_return"
    /\ UNCHANGED <<fw, dataset, all_inputs, max_accs, s, shifts, preds, total, files,
                   max_val, shift, qW, pk>>

\* float weights tried
FloatVals == {-3, 0, 1}

QMatrices == UNION {[1..m -> [1..k -> FloatVals]] : m \in 1..QRows, k \in 1..QCols}

InitQuant ==
    /\ pc = "q_call"
    /\ qW \in QMatrices
    /\ qOut = <<>>
    /\ fw = Untrained
    /\ dataset = <<>>
    /\ all_inputs = <<>>
    /\ max_accs = <<>>
    /\ s = <<>>
    /\ shifts = <<>>
    /\ preds = <<>>
    /\ total = 0
    /\ files = NoFiles
    /\ max_val = 0
    /\ shift = 0
    /\ pk = <<>>

NextQuant == QuantForward

SpecQuant == InitQuant /\ [][NextQuant]_vars

\* C4: forward(W) has the shape of W, every element is -1, 0 or +1 and is
\* W / mean(|W|) clamped to [-1, 1] and rounded, ties to even (0 when
\* |w| <= mean/2, else the sign of w); an all-zero W gives the all-zero matrix.
C4_TernaryOutput ==
    pc = "q_return" =>
        LET n == Len(qW) * Len(qW[1])
            S == AbsSum(qW)
        IN  /\ Len(qOut) = Len(qW)
            /\ \A r \in 1..Len(qW) :
                  /\ Len(qOut[r]) = Len(qW[r])
                  /\ \A c \in 1..Len(qW[r]) :
                        /\ qOut[r][c] \in {-1, 0, 1}
                        /\ qOut[r][c] = IF 2 * Abs(qW[r][c]) * n <= S THEN 0
                                        ELSE IF qW[r][c] > 0 THEN 1 ELSE -1

\* one element exactly at half the mean (a tie) and one beyond the clamp
C4_Witness ==
    /\ pc = "q_return"
    /\ \E r \in 1..Len(qW) : \E c \in 1..Len(qW[r]) :
          qW[r][c] # 0 /\ 2 * Abs(qW[r][c]) * Len(qW) * Len(qW[1]) = AbsSum(qW) /\ qOut[r][c] = 0
    /\ \E r \in 1..Len(qW) : \E c \in 1..Len(qW[r]) :
          Abs(qW[r][c]) * Len(qW) * Len(qW[1]) > AbsSum(qW) /\ qOut[r][c] = -1

----------------------------------------------------------------------------
(* The packing loop of export_weights_header for one layer, one tile a step *)

\* for tile in range(tiles_per_row): ... word_list.extend(packed)
PackNextTile ==
    /\ pc = "pack"
    /\ pk.row < pk.m
    /\ pk.tile < TilesPerRow(pk.k)
    /\ pk' = [pk EXCEPT !.word_list = @ \o PackTile(pk.w, pk.k, pk.row, pk.tile),
                        !.tile = @ + 1]
    /\ UNCHANGED <<pc, fw, dataset, all_inputs, max_accs, s, shifts, preds, total, files,
                   max_val, shift, qW, qOut>>

\* for row in range(m): the tiles of the row are done, go to the next row
PackNextRow ==
    /\ pc = "pack"
    /\ pk.row < pk.m
    /\ pk.tile = TilesPerRow(pk.k)
    /\ pk' = [pk EXCEPT !.row = @ + 1, !.tile = 0]
    /\ UNCHANGED <<pc, fw, dataset, all_inputs, max_accs, s, shifts, preds, total, files,
                   max_val, shift, qW, qOut>>

PackDone ==
    /\ pc = "pack"
    /\ pk.row = pk.m
    /\ pc' = "packed"
    /\ UNCHANGED <<fw, dataset, all_inputs, max_accs, s, shifts, preds, total, files,
                   max_val, shift, qW, qOut, pk>>

\* ternary matrices tried: every position takes -1, 0 and +1 as g varies
PackInput(g, m, k) == [r \in 1..m |-> [c \in 1..k |-> ((r + c + g) % 3) - 1]]

InitPack ==
    /\ pc = "pack"
    /\ \E g \in 0..2, m \in 1..PackRows, k \in 1..PackCols :
          pk = [w |-> PackInput(g, m, k), k |-> k, m |-> m, row |-> 0, tile |-> 0,
                word_list |-> <<>>]
    /\ fw = Untrained
    /\ dataset = <<>>
    /\ all_inputs = <<>>
    /\ max_accs = <<>>
    /\ s = <<>>
    /\ shifts = <<>>
    /\ preds = <<>>
    /\ total = 0
    /\ files = NoFiles
    /\ max_val = 0
    /\ shift = 0
    /\ qW = <<>>
    /\ qOut = <<>>

NextPack == PackNextTile \/ PackNextRow \/ PackDone

SpecPack == InitPack /\ [][NextPack]_vars

\* the 2-bit field at bit offset off of a word
C3_Field(word, off) ==
    (IF off \in word THEN 1 ELSE 0) + (IF off + 1 \in word THEN 2 ELSE 0)

\* the inverse of the encoding table
C3_Decode(f) == IF f = 1 THEN 1 ELSE IF f = 2 THEN -1 ELSE 0

\* C3: the word list decodes back to w: for row r and column c < K the field
\* at offset ((c mod 128) mod 16) * 2 of word (r * tiles_per_row + c div 128)
\* * 8 + (c mod 128) div 16, tiles_per_row = ceil(K / 128), is 01 for +1, 10
\* for -1, 00 for 0; the fields of padded columns are 00; every word fits 32
\* bits.
C3_PackRoundTrip ==
    pc = "packed" =>
        LET K == pk.k
            M == pk.m
            tpr == IF K % 128 = 0 THEN K \div 128 ELSE K \div 128 + 1
            wl == pk.word_list
            FieldAt(r, c) == C3_Field(wl[(r * tpr + c \div 128) * 8 + (c % 128) \div 16 + 1],
                                      ((c % 128) % 16) * 2)
        IN  /\ Len(wl) = M * tpr * 8
            /\ \A i \in 1..Len(wl) : wl[i] \subseteq 0..31
            /\ \A r \in 0..(M - 1) :
                  /\ \A c \in 0..(K - 1) :
                        /\ FieldAt(r, c) = (CASE pk.w[r + 1][c + 1] = 1 -> 1
                                              [] pk.w[r + 1][c + 1] = -1 -> 2
                                              [] pk.w[r + 1][c + 1] = 0 -> 0)
                        /\ C3_Decode(FieldAt(r, c)) = pk.w[r + 1][c + 1]
                  /\ \A c \in K..(tpr * 128 - 1) : FieldAt(r, c) = 0

\* a ragged matrix of two tiles per row, packed, with -1 in its last column
C3_Witness ==
    /\ pc = "packed"
    /\ pk.k = 130 /\ pk.m = 2
    /\ Len(pk.word_list) = 32
    /\ pk.w[2][130] = -1
    /\ pk.word_list[25] = {0, 3}

----------------------------------------------------------------------------
(* verify_int8_inference and the rest of main, for any shifts handed in *)

MaxVerifySamples == 1

InitVerify ==
    /\ pc = "verify"
    /\ fw \in Models
    /\ dataset \in SeqsUpTo(Samples, MaxVerifySamples)
    /\ shifts \in [1..3 -> 0..MaxShift]
    /\ all_inputs = <<>>
    /\ max_accs = <<>>
    /\ s = <<>>
    /\ preds = <<>>
    /\ total = 0
    /\ files = NoFiles
    /\ max_val = 0
    /\ shift = 0
    /\ qW = <<>>
    /\ qOut = <<>>
    /\ pk = <<>>

NextVerify == VerifyInt8Inference \/ ExportWeightsHeader \/ ExportTestDataHeader

SpecVerify == InitVerify /\ [][NextVerify]_vars

\* some accumulator of some layer on some verification sample is out of
\* [-128, 127] after its shift
ShiftOverflow ==
    Len(shifts) = 3 /\ \E b \in 1..Len(dataset) :
        LET w == Ternary(fw)
            a == LoaderActs(dataset)[b]
            acc1 == VAcc1(w, a)
            acc2 == VAcc2(w, a, shifts)
            acc3 == VAcc3(w, a, shifts)
        IN  \/ \E r \in 1..Len(acc1) : ~InInt8(acc1[r] \div (2 ^ shifts[1]))
            \/ \E r \in 1..Len(acc2) : ~InInt8(acc2[r] \div (2 ^ shifts[2]))
            \/ \E r \in 1..Len(acc3) : ~InInt8(acc3[r] \div (2 ^ shifts[3]))

\* C9: when the shifts fail to bound some accumulator into 8 bits on a
\* verification sample, verify_int8_inference aborts and the weights
\* artifact is not exported.
C9_OverflowAborts ==
    ShiftOverflow =>
        /\ pc \in {"verify", "aborted"}
        /\ WEIGHTS_FILE \notin DOMAIN files

====
